---- MODULE Spec2Model ----
(***************************************************************************)
(* Loss-recovery accounting of s2n-quic:                                   *)
(*   - Prr          quic/s2n-quic-core/src/recovery/prr.rs                 *)
(*   - SentPackets  quic/s2n-quic-transport/src/recovery/sent_packets.rs   *)
(*                                                                         *)
(* Every public method is one action.  The variable `call` records the     *)
(* method that ran last, its arguments and the fields of the receiver as   *)
(* they were on entry (on_ack never reads bytes_allowed_on_ack, so its     *)
(* record leaves that field out); `ret` records what the method returned;  *)
(* `panic` is TRUE once a Rust panic has unwound the caller.               *)
(*                                                                         *)
(* Two more pieces of the repository are modelled next to them:            *)
(*   - Prr::is_enabled, the process-wide flag behind a OnceCell            *)
(*   - Pattern::extract common/compliance/cargo-compliance/src/pattern.rs  *)
(***************************************************************************)
EXTENDS Integers, Sequences, FiniteSets

VARIABLES
    bytes_sent_during_recovery,      \* Prr field, prr.rs:12
    bytes_delivered_during_recovery, \* Prr field, prr.rs:15
    bytes_in_flight_at_recovery,     \* Prr field, prr.rs:18
    bytes_allowed_on_ack,            \* Prr field, prr.rs:22
    sent_packets,                    \* SentPackets field, sent_packets.rs:20
    call,                            \* last method called, arguments, receiver on entry
    ret,                             \* value returned by the last method
    panic,                           \* a panic has been raised
    inserted,                        \* every entry a sender has inserted
    returned,                        \* per resolver: its remove calls and their results
    overflow_checks,                 \* the build checks integer overflow (debug profile)
    recovery_threshold,              \* slow_start_threshold the caller holds during recovery
    std_feature,                     \* cfg(feature = "std"), prr.rs:94 and 101
    environment,                     \* S2N_ENABLE_PRR in the process environment, prr.rs:5
    USE_PRR,                         \* static OnceCell<bool>, prr.rs:97
    thread,                          \* per thread: its position inside is_enabled
    is_enabled_returns,              \* the values is_enabled has returned, in order
    first_read,                      \* the environment as the first read found it
    state,                           \* ParserState of extract, pattern.rs:43
    annotations,                     \* the AnnotationSet passed to extract, pattern.rs:41
    line_no,                         \* lines of the source consumed so far
    extract_result,                  \* what extract returned, << >> while it runs
    captures_started                 \* first lines of the captures extract has opened

vars == << bytes_sent_during_recovery, bytes_delivered_during_recovery,
           bytes_in_flight_at_recovery, bytes_allowed_on_ack,
           sent_packets, call, ret, panic, inserted, returned,
           overflow_checks, recovery_threshold, std_feature,
           environment, USE_PRR, thread, is_enabled_returns, first_read,
           state, annotations, line_no, extract_result, captures_started >>

\* the bookkeeping of the callers of SentPackets
caller_vars == << inserted, returned >>

\* what is fixed for the lifetime of one process
setting_vars == << overflow_checks, recovery_threshold, std_feature >>

\* the state behind Prr::is_enabled
flag_vars == << environment, USE_PRR, thread, is_enabled_returns, first_read >>

\* the state of one Pattern::extract call
extract_vars == << state, annotations, line_no, extract_result, captures_started >>

prr_vars == << bytes_sent_during_recovery, bytes_delivered_during_recovery,
               bytes_in_flight_at_recovery, bytes_allowed_on_ack >>

(***************************************************************************)
(* Bounds of the model.                                                    *)
(***************************************************************************)
\* largest byte count passed as an argument of a Prr method
MaxBytes == 2
\* cap on the accumulating counters of Prr (the usize counters are far
\* from their width at these sizes)
MaxCount == 3

Bytes == 0 .. MaxBytes

(***************************************************************************)
(* Prr                                                                     *)
(***************************************************************************)

\* usize::saturating_sub
SaturatingSub(a, b) == IF a >= b THEN a - b ELSE 0

\* usize::max / usize::min
Max(a, b) == IF a >= b THEN a ELSE b
Min(a, b) == IF a <= b THEN a ELSE b

\* usize `/`: integer division, panics on a zero divisor
CheckedDiv(a, b) ==
    IF b = 0 THEN [panic |-> TRUE, value |-> 0]
             ELSE [panic |-> FALSE, value |-> a \div b]

\* the four fields of the receiver as one record
PrrState ==
    [ bytes_sent_during_recovery      |-> bytes_sent_during_recovery,
      bytes_delivered_during_recovery |-> bytes_delivered_during_recovery,
      bytes_in_flight_at_recovery     |-> bytes_in_flight_at_recovery,
      bytes_allowed_on_ack            |-> bytes_allowed_on_ack ]

\* the three accumulating fields of the receiver (on_ack overwrites the
\* fourth, bytes_allowed_on_ack, without reading it)
PrrCounters ==
    [ bytes_sent_during_recovery      |-> bytes_sent_during_recovery,
      bytes_delivered_during_recovery |-> bytes_delivered_during_recovery,
      bytes_in_flight_at_recovery     |-> bytes_in_flight_at_recovery ]

\* prr.rs:66-72, the branch taken when bytes_in_flight_at_recovery is not zero
\* (delivered is the counter after `+= bytes_acknowledged`)
ProportionalRateReduction(delivered, sent, recoverfs, slow_start_threshold) ==
    LET q == CheckedDiv(delivered * slow_start_threshold + recoverfs - 1, recoverfs)
    IN  [panic |-> q.panic, value |-> SaturatingSub(q.value, delivered)]

\* mutant: the zero-snapshot guard of prr.rs:60 is missing
CongestionAvoidanceBudgetUnguarded(delivered, sent, recoverfs, slow_start_threshold) ==
    ProportionalRateReduction(delivered, sent, recoverfs, slow_start_threshold)

\* prr.rs:59-73, bytes_in_flight > slow_start_threshold
CongestionAvoidanceBudget(delivered, sent, recoverfs, slow_start_threshold) ==
    IF recoverfs = 0
    THEN [panic |-> FALSE, value |-> 0]
    ELSE ProportionalRateReduction(delivered, sent, recoverfs, slow_start_threshold)

\* mutant: the limit leaves out max_datagram_size
SlowStartReductionBoundNoMss(delivered, sent, bytes_in_flight, slow_start_threshold, max_datagram_size) ==
    LET limit == Max(SaturatingSub(delivered, sent), bytes_in_flight)
    IN  Min(limit, SaturatingSub(slow_start_threshold, bytes_in_flight))

\* mutant: the limit is not capped by the room left below the threshold
SlowStartReductionBoundUncapped(delivered, sent, bytes_in_flight, slow_start_threshold, max_datagram_size) ==
    Max(SaturatingSub(delivered, sent), bytes_in_flight) + max_datagram_size

\* prr.rs:74-87, Slow Start Reduction Bound
SlowStartReductionBound(delivered, sent, bytes_in_flight, slow_start_threshold, max_datagram_size) ==
    LET limit == Max(SaturatingSub(delivered, sent), bytes_in_flight)
                    + max_datagram_size
    IN  Min(limit, SaturatingSub(slow_start_threshold, bytes_in_flight))

\* prr.rs:59-87, the value assigned to bytes_allowed_on_ack
OnAckBudget(delivered, sent, recoverfs, bytes_in_flight, slow_start_threshold, max_datagram_size) ==
    IF bytes_in_flight > slow_start_threshold
    THEN CongestionAvoidanceBudget(delivered, sent, recoverfs, slow_start_threshold)
    ELSE [panic |-> FALSE,
          value |-> SlowStartReductionBound(delivered, sent, bytes_in_flight,
                                            slow_start_threshold, max_datagram_size)]

\* mutant: strict comparison
CanTransmitStrict(allowed, datagram_size) == allowed > datagram_size

\* prr.rs:90-92
CanTransmit(allowed, datagram_size) == allowed >= datagram_size

\* the ledger and the resolvers are not touched by Prr
LedgerUnchanged ==
    UNCHANGED << sent_packets, caller_vars, setting_vars, flag_vars, extract_vars >>

\* mutant: the budget is not reset
on_congestion_event_keeps_budget(bytes_in_flight) ==
    /\ ~panic
    /\ call' = [op |-> "on_congestion_event", bytes_in_flight |-> bytes_in_flight,
                pre |-> PrrState]
    /\ bytes_in_flight_at_recovery' = bytes_in_flight
    /\ bytes_sent_during_recovery' = 0
    /\ bytes_delivered_during_recovery' = 0
    /\ ret' = << >>
    /\ UNCHANGED << bytes_allowed_on_ack, panic >>
    /\ LedgerUnchanged

\* prr.rs:35-41
on_congestion_event(bytes_in_flight) ==
    /\ ~panic
    /\ call' = [op |-> "on_congestion_event", bytes_in_flight |-> bytes_in_flight,
                pre |-> PrrState]
    /\ bytes_in_flight_at_recovery' = bytes_in_flight
    /\ bytes_sent_during_recovery' = 0
    /\ bytes_delivered_during_recovery' = 0
    /\ bytes_allowed_on_ack' = 0
    /\ ret' = << >>
    /\ UNCHANGED panic
    /\ LedgerUnchanged

\* mutant: the budget is decremented with a plain subtraction
on_packet_sent_unclamped(bytes_sent) ==
    /\ ~panic
    /\ bytes_sent_during_recovery + bytes_sent <= MaxCount
    /\ call' = [op |-> "on_packet_sent", bytes_sent |-> bytes_sent, pre |-> PrrState]
    /\ bytes_sent_during_recovery' = bytes_sent_during_recovery + bytes_sent
    /\ bytes_allowed_on_ack' = bytes_allowed_on_ack - bytes_sent
    /\ ret' = << >>
    /\ UNCHANGED << bytes_delivered_during_recovery, bytes_in_flight_at_recovery, panic >>
    /\ LedgerUnchanged

\* prr.rs:43-47
on_packet_sent(bytes_sent) ==
    /\ ~panic
    /\ bytes_sent_during_recovery + bytes_sent <= MaxCount
    /\ call' = [op |-> "on_packet_sent", bytes_sent |-> bytes_sent, pre |-> PrrState]
    /\ bytes_sent_during_recovery' = bytes_sent_during_recovery + bytes_sent
    /\ bytes_allowed_on_ack' = SaturatingSub(bytes_allowed_on_ack, bytes_sent)
    /\ ret' = << >>
    /\ UNCHANGED << bytes_delivered_during_recovery, bytes_in_flight_at_recovery, panic >>
    /\ LedgerUnchanged

\* mutant: the delivered counter restarts from the acknowledged bytes
on_ack_restarts_delivered(bytes_acknowledged, bytes_in_flight, slow_start_threshold, max_datagram_size) ==
    /\ ~panic
    /\ bytes_delivered_during_recovery + bytes_acknowledged <= MaxCount
    /\ call' = [op |-> "on_ack", bytes_acknowledged |-> bytes_acknowledged,
                bytes_in_flight |-> bytes_in_flight,
                slow_start_threshold |-> slow_start_threshold,
                max_datagram_size |-> max_datagram_size, pre |-> PrrCounters]
    /\ bytes_delivered_during_recovery' = bytes_acknowledged
    /\ LET budget == OnAckBudget(bytes_delivered_during_recovery + bytes_acknowledged,
                                 bytes_sent_during_recovery,
                                 bytes_in_flight_at_recovery, bytes_in_flight,
                                 slow_start_threshold, max_datagram_size)
       IN  /\ panic' = budget.panic
           /\ bytes_allowed_on_ack' =
                 IF budget.panic THEN bytes_allowed_on_ack ELSE budget.value
    /\ ret' = << >>
    /\ UNCHANGED << bytes_sent_during_recovery, bytes_in_flight_at_recovery >>
    /\ LedgerUnchanged

\* prr.rs:49-88
on_ack(bytes_acknowledged, bytes_in_flight, slow_start_threshold, max_datagram_size) ==
    /\ ~panic
    /\ bytes_delivered_during_recovery + bytes_acknowledged <= MaxCount
    /\ call' = [op |-> "on_ack", bytes_acknowledged |-> bytes_acknowledged,
                bytes_in_flight |-> bytes_in_flight,
                slow_start_threshold |-> slow_start_threshold,
                max_datagram_size |-> max_datagram_size, pre |-> PrrCounters]
    /\ bytes_delivered_during_recovery' =
            bytes_delivered_during_recovery + bytes_acknowledged
    /\ LET budget == OnAckBudget(bytes_delivered_during_recovery + bytes_acknowledged,
                                 bytes_sent_during_recovery,
                                 bytes_in_flight_at_recovery, bytes_in_flight,
                                 slow_start_threshold, max_datagram_size)
       IN  /\ panic' = budget.panic
           /\ bytes_allowed_on_ack' =
                 IF budget.panic THEN bytes_allowed_on_ack ELSE budget.value
    /\ ret' = << >>
    /\ UNCHANGED << bytes_sent_during_recovery, bytes_in_flight_at_recovery >>
    /\ LedgerUnchanged

\* prr.rs:90-92
can_transmit(datagram_size) ==
    /\ ~panic
    /\ call' = [op |-> "can_transmit", datagram_size |-> datagram_size, pre |-> PrrState]
    /\ ret' = CanTransmit(bytes_allowed_on_ack, datagram_size)
    /\ UNCHANGED << prr_vars, panic >>
    /\ LedgerUnchanged

\* the two paths that resolve sent packets
Resolvers == {"ack_processing", "loss_detection"}

\* threads of the process that call Prr::is_enabled
MaxThreads == 2
Threads == 1 .. MaxThreads

\* prr.rs:26-33 (Prr::new), sent_packets.rs:16 (SentPackets::default),
\* prr.rs:97 (the static starts uninitialized), pattern.rs:43 (extract
\* starts in Search, on a set that holds nothing yet)
Constructed ==
    /\ bytes_in_flight_at_recovery = 0
    /\ bytes_sent_during_recovery = 0
    /\ bytes_delivered_during_recovery = 0
    /\ bytes_allowed_on_ack = 0
    /\ sent_packets = << >>
    /\ call = [op |-> "new"]
    /\ ret = << >>
    /\ panic = FALSE
    /\ inserted = {}
    /\ returned = [resolver \in Resolvers |-> {}]
    /\ USE_PRR = << >>
    /\ thread = [t \in Threads |-> [pc |-> "idle", value |-> FALSE]]
    /\ is_enabled_returns = << >>
    /\ first_read = << >>
    /\ state = [name |-> "Search", capture |-> << >>]
    /\ annotations = {}
    /\ line_no = 0
    /\ extract_result = << >>
    /\ captures_started = {}

\* a 64-bit release build of the std crate, outside recovery
Init ==
    /\ Constructed
    /\ overflow_checks = FALSE
    /\ recovery_threshold = 0
    /\ std_feature = TRUE
    /\ environment = "absent"

Next ==
    \/ \E bytes_in_flight \in Bytes : on_congestion_event(bytes_in_flight)
    \/ \E bytes_sent \in Bytes : on_packet_sent(bytes_sent)
    \/ \E bytes_acknowledged \in Bytes, bytes_in_flight \in Bytes,
          slow_start_threshold \in Bytes, max_datagram_size \in Bytes :
            on_ack(bytes_acknowledged, bytes_in_flight, slow_start_threshold,
                   max_datagram_size)
    \/ \E datagram_size \in Bytes : can_transmit(datagram_size)

Spec == Init /\ [][Next]_vars

(***************************************************************************)
(* SentPackets                                                             *)
(*                                                                         *)
(* sent_packets is the BTreeMap of sent_packets.rs:20, held as the         *)
(* sequence of its entries in the order of the tree's leaf.  A BTreeMap    *)
(* keeps up to 11 entries in its root leaf and searches a node by          *)
(* comparing the key with the node's keys from the left, so for MaxPn      *)
(* values per space the sequence is the tree.                              *)
(***************************************************************************)
\* largest packet number value of a space
MaxPn == 3

\* PacketNumberSpace
Spaces == {"Initial", "Handshake", "ApplicationData"}

\* PacketNumberSpace::new_packet_number
new_packet_number(space, value) == [space |-> space, value |-> value]

PacketNumbers == { new_packet_number(space, value) : space \in Spaces, value \in 1 .. MaxPn }

\* SentPacketInfo::new, sent_packets.rs:63-69
SentPacketInfoNew(in_flight, sent_bytes, time_sent) ==
    [in_flight |-> in_flight, sent_bytes |-> sent_bytes, time_sent |-> time_sent]

\* the SentPacketInfo values callers pass
SentPacketInfos ==
    { SentPacketInfoNew(FALSE, 0, 1), SentPacketInfoNew(TRUE, 1, 1),
      SentPacketInfoNew(TRUE, 2, 2) }

\* Ord for PacketNumber: comparing packet numbers of two spaces is a fatal
\* assertion
PacketNumberCmp(a, b) ==
    IF a.space # b.space THEN "panic"
    ELSE IF a.value < b.value THEN "Less"
    ELSE IF a.value = b.value THEN "Equal"
    ELSE "Greater"

\* PacketNumberRange::new: an inclusive range of one space, start <= end
PacketNumberRanges ==
    { r \in [start : PacketNumbers, end : PacketNumbers] :
        PacketNumberCmp(r.start, r.end) \in {"Less", "Equal"} }

\* mutant: keys are ordered by their raw value, whatever their space
SearchNodeByValue(map, key, i) ==
    LET notLess == { j \in i .. Len(map) : map[j].key.value >= key.value }
        index == IF notLess = {} THEN Len(map) + 1
                 ELSE CHOOSE j \in notLess : \A k \in notLess : j <= k
    IN  [panic |-> FALSE,
         found |-> index <= Len(map) /\ map[index].key.value = key.value,
         index |-> index]

\* BTreeMap's search of a node: the index of the first key not less than
\* `key`, and whether it is equal
RECURSIVE SearchNode(_, _, _)
SearchNode(map, key, i) ==
    IF i > Len(map) THEN [panic |-> FALSE, found |-> FALSE, index |-> i]
    ELSE LET ordering == PacketNumberCmp(key, map[i].key)
         IN  CASE ordering = "panic" -> [panic |-> TRUE, found |-> FALSE, index |-> i]
               [] ordering = "Greater" -> SearchNode(map, key, i + 1)
               [] ordering = "Equal" -> [panic |-> FALSE, found |-> TRUE, index |-> i]
               [] ordering = "Less" -> [panic |-> FALSE, found |-> FALSE, index |-> i]

\* mutant: a key that is not stored takes the place of the entry at its
\* search position
InsertReplacesAtPosition(map, packet_number, sent_packet_info) ==
    LET at == SearchNode(map, packet_number, 1)
        entry == [key |-> packet_number, value |-> sent_packet_info]
    IN  IF at.panic THEN [panic |-> TRUE, map |-> map]
        ELSE IF at.index <= Len(map)
        THEN [panic |-> FALSE, map |-> [map EXCEPT ![at.index] = entry]]
        ELSE [panic |-> FALSE, map |-> map \o << entry >>]

\* mutant: the entry is added at the search position even when the key is
\* stored already
InsertAlwaysAdds(map, packet_number, sent_packet_info) ==
    LET at == SearchNode(map, packet_number, 1)
        entry == [key |-> packet_number, value |-> sent_packet_info]
    IN  IF at.panic THEN [panic |-> TRUE, map |-> map]
        ELSE [panic |-> FALSE,
              map |-> SubSeq(map, 1, at.index - 1) \o << entry >>
                         \o SubSeq(map, at.index, Len(map))]

\* mutant: the entry is pushed at the end without a search
InsertUnordered(map, packet_number, sent_packet_info) ==
    [panic |-> FALSE,
     map |-> map \o << [key |-> packet_number, value |-> sent_packet_info] >>]

\* BTreeMap::insert, sent_packets.rs:26
Insert(map, packet_number, sent_packet_info) ==
    LET at == SearchNode(map, packet_number, 1)
        entry == [key |-> packet_number, value |-> sent_packet_info]
    IN  IF at.panic THEN [panic |-> TRUE, map |-> map]
        ELSE IF at.found
        THEN [panic |-> FALSE, map |-> [map EXCEPT ![at.index] = entry]]
        ELSE [panic |-> FALSE,
              map |-> SubSeq(map, 1, at.index - 1) \o << entry >>
                         \o SubSeq(map, at.index, Len(map))]

\* BTreeMap::get, sent_packets.rs:31
Get(map, packet_number) ==
    LET at == SearchNode(map, packet_number, 1)
    IN  IF at.panic THEN [panic |-> TRUE, ret |-> << >>]
        ELSE IF at.found THEN [panic |-> FALSE, ret |-> << map[at.index].value >>]
        ELSE [panic |-> FALSE, ret |-> << >>]

\* mutant: the entry is looked up and returned but stays in the map
RemoveKeepsEntry(map, packet_number) ==
    LET at == SearchNode(map, packet_number, 1)
    IN  IF at.panic THEN [panic |-> TRUE, ret |-> << >>, map |-> map]
        ELSE IF at.found
        THEN [panic |-> FALSE, ret |-> << map[at.index].value >>, map |-> map]
        ELSE [panic |-> FALSE, ret |-> << >>, map |-> map]

\* mutant: the entry at the search position is removed even when its key
\* is not the one searched for
RemoveAtSearchPosition(map, packet_number) ==
    LET at == SearchNode(map, packet_number, 1)
    IN  IF at.panic THEN [panic |-> TRUE, ret |-> << >>, map |-> map]
        ELSE IF at.index <= Len(map)
        THEN [panic |-> FALSE, ret |-> << map[at.index].value >>,
              map |-> SubSeq(map, 1, at.index - 1)
                         \o SubSeq(map, at.index + 1, Len(map))]
        ELSE [panic |-> FALSE, ret |-> << >>, map |-> map]

\* BTreeMap::remove, sent_packets.rs:42
Remove(map, packet_number) ==
    LET at == SearchNode(map, packet_number, 1)
    IN  IF at.panic THEN [panic |-> TRUE, ret |-> << >>, map |-> map]
        ELSE IF at.found
        THEN [panic |-> FALSE, ret |-> << map[at.index].value >>,
              map |-> SubSeq(map, 1, at.index - 1)
                         \o SubSeq(map, at.index + 1, Len(map))]
        ELSE [panic |-> FALSE, ret |-> << >>, map |-> map]

\* the (key, value) pairs an iterator over entries first .. last yields
Pairs(map, first, last) ==
    [ i \in 1 .. (IF last >= first THEN last - first + 1 ELSE 0) |->
        << map[first + i - 1].key, map[first + i - 1].value >> ]

\* mutant: the range is start..end, its end excluded
RangeHalfOpen(map, start, end) ==
    IF map = << >> THEN [panic |-> FALSE, ret |-> << >>]
    ELSE LET order == PacketNumberCmp(start, end)
             lower == SearchNode(map, start, 1)
             upper == SearchNode(map, end, 1)
         IN  IF order \in {"panic", "Greater"} \/ lower.panic \/ upper.panic
             THEN [panic |-> TRUE, ret |-> << >>]
             ELSE [panic |-> FALSE, ret |-> Pairs(map, lower.index, upper.index - 1)]

\* BTreeMap::range(start..=end), sent_packets.rs:36: an empty tree yields
\* nothing; otherwise the bounds are compared with each other, then each
\* is searched in the tree
Range(map, start, end) ==
    IF map = << >> THEN [panic |-> FALSE, ret |-> << >>]
    ELSE LET order == PacketNumberCmp(start, end)
             lower == SearchNode(map, start, 1)
             upper == SearchNode(map, end, 1)
         IN  IF order \in {"panic", "Greater"} \/ lower.panic \/ upper.panic
             THEN [panic |-> TRUE, ret |-> << >>]
             ELSE [panic |-> FALSE,
                   ret |-> Pairs(map, lower.index,
                                 IF upper.found THEN upper.index ELSE upper.index - 1)]

\* BTreeMap::iter, sent_packets.rs:47
Iter(map) == Pairs(map, 1, Len(map))

\* SentPackets holds no reference to Prr
PrrUnchanged == UNCHANGED << prr_vars, setting_vars, flag_vars, extract_vars >>

\* sent_packets.rs:25-27
insert(packet_number, sent_packet_info) ==
    /\ ~panic
    /\ call' = [op |-> "insert", packet_number |-> packet_number,
                sent_packet_info |-> sent_packet_info, pre |-> sent_packets]
    /\ LET r == Insert(sent_packets, packet_number, sent_packet_info)
       IN  /\ sent_packets' = r.map
           /\ panic' = r.panic
    /\ ret' = << >>
    /\ PrrUnchanged
    /\ UNCHANGED caller_vars

\* sent_packets.rs:30-32
get(packet_number) ==
    /\ ~panic
    /\ call' = [op |-> "get", packet_number |-> packet_number, pre |-> sent_packets]
    /\ LET r == Get(sent_packets, packet_number)
       IN  /\ ret' = r.ret
           /\ panic' = r.panic
    /\ PrrUnchanged
    /\ UNCHANGED << sent_packets, caller_vars >>

\* sent_packets.rs:35-37
range(packet_number_range) ==
    /\ ~panic
    /\ call' = [op |-> "range", range |-> packet_number_range, pre |-> sent_packets]
    /\ LET r == Range(sent_packets, packet_number_range.start, packet_number_range.end)
       IN  /\ ret' = r.ret
           /\ panic' = r.panic
    /\ PrrUnchanged
    /\ UNCHANGED << sent_packets, caller_vars >>

\* sent_packets.rs:41-43
remove(packet_number) ==
    /\ ~panic
    /\ call' = [op |-> "remove", packet_number |-> packet_number, pre |-> sent_packets]
    /\ LET r == Remove(sent_packets, packet_number)
       IN  /\ sent_packets' = r.map
           /\ ret' = r.ret
           /\ panic' = r.panic
    /\ PrrUnchanged
    /\ UNCHANGED caller_vars

\* sent_packets.rs:46-48
iter ==
    /\ ~panic
    /\ call' = [op |-> "iter", pre |-> sent_packets]
    /\ ret' = Iter(sent_packets)
    /\ PrrUnchanged
    /\ UNCHANGED << sent_packets, panic, caller_vars >>

NextLedger ==
    \/ \E packet_number \in PacketNumbers, sent_packet_info \in SentPacketInfos :
          insert(packet_number, sent_packet_info)
    \/ \E packet_number \in PacketNumbers : get(packet_number)
    \/ \E packet_number_range \in PacketNumberRanges : range(packet_number_range)
    \/ \E packet_number \in PacketNumbers : remove(packet_number)
    \/ iter

\* one SentPackets, from SentPackets::default()
SpecLedger == Init /\ [][NextLedger]_vars

(***************************************************************************)
(* Two resolvers of one SentPackets.  The send path inserts each packet    *)
(* under the next packet number of its space; ACK processing and loss      *)
(* detection each call remove, in any interleaving, on the packet numbers  *)
(* that were sent.  SentPackets is mutated through &mut self, so the calls *)
(* themselves are atomic.                                                  *)
(***************************************************************************)
\* packets sent on the connection
MaxSent == 3

\* the space the connection sends in
SendSpace == "ApplicationData"

\* the send path: insert under the next packet number, sent_packets.rs:25-27
send(sent_packet_info) ==
    /\ ~panic
    /\ Cardinality(inserted) < MaxSent
    /\ LET packet_number == new_packet_number(SendSpace, Cardinality(inserted) + 1)
           r == Insert(sent_packets, packet_number, sent_packet_info)
       IN  /\ call' = [op |-> "insert", packet_number |-> packet_number,
                       sent_packet_info |-> sent_packet_info, pre |-> sent_packets]
           /\ sent_packets' = r.map
           /\ panic' = r.panic
           /\ inserted' = inserted \cup
                             {[key |-> packet_number, value |-> sent_packet_info]}
    /\ ret' = << >>
    /\ PrrUnchanged
    /\ UNCHANGED returned

\* a resolver resolves a sent packet it has not resolved yet: remove,
\* sent_packets.rs:41-43
resolve(resolver, packet_number) ==
    /\ ~panic
    /\ \E entry \in inserted : entry.key = packet_number
    /\ \A r \in returned[resolver] : r.packet_number # packet_number
    /\ call' = [op |-> "remove", packet_number |-> packet_number, pre |-> sent_packets,
                resolver |-> resolver]
    /\ LET r == Remove(sent_packets, packet_number)
       IN  /\ sent_packets' = r.map
           /\ ret' = r.ret
           /\ panic' = r.panic
           /\ returned' = [returned EXCEPT ![resolver] =
                              @ \cup {[packet_number |-> packet_number, ret |-> r.ret]}]
    /\ PrrUnchanged
    /\ UNCHANGED inserted

NextResolve ==
    \/ \E sent_packet_info \in SentPacketInfos : send(sent_packet_info)
    \/ \E resolver \in Resolvers, value \in 1 .. MaxSent :
          resolve(resolver, new_packet_number(SendSpace, value))

SpecResolve == Init /\ [][NextResolve]_vars

(***************************************************************************)
(* The round trip of one ledger: packets of one space are inserted under   *)
(* distinct packet numbers in any order, looked up, and removed.           *)
(***************************************************************************)
\* insert under a packet number not used before, sent_packets.rs:25-27
insert_new(packet_number, sent_packet_info) ==
    /\ ~panic
    /\ \A entry \in inserted : entry.key # packet_number
    /\ LET r == Insert(sent_packets, packet_number, sent_packet_info)
       IN  /\ call' = [op |-> "insert", packet_number |-> packet_number,
                       sent_packet_info |-> sent_packet_info, pre |-> sent_packets]
           /\ sent_packets' = r.map
           /\ panic' = r.panic
           /\ inserted' = inserted \cup
                             {[key |-> packet_number, value |-> sent_packet_info]}
    /\ ret' = << >>
    /\ PrrUnchanged
    /\ UNCHANGED returned

\* the packet numbers of the space the connection sends in
SendPacketNumbers == { packet_number \in PacketNumbers : packet_number.space = SendSpace }

NextRoundTrip ==
    \/ \E packet_number \in SendPacketNumbers, sent_packet_info \in SentPacketInfos :
          insert_new(packet_number, sent_packet_info)
    \/ \E packet_number \in SendPacketNumbers : get(packet_number)
    \/ \E packet_number \in SendPacketNumbers : resolve("ack_processing", packet_number)
    \/ iter

SpecRoundTrip == Init /\ [][NextRoundTrip]_vars

(***************************************************************************)
(* Prr at the width of its counters.  The fields and arguments are usize;  *)
(* `+`, `-` and `*` on usize panic on overflow when the build checks       *)
(* overflow and wrap modulo 2^width when it does not.  The width is scaled *)
(* down: UsizeMax stands for usize::MAX.                                   *)
(***************************************************************************)
UsizeMax == 3
Usize == 0 .. UsizeMax

\* usize `+`, `*`, `-`: the wrapped value and whether the exact result
\* left the range
UsizeAdd(a, b) == [overflow |-> a + b > UsizeMax, value |-> (a + b) % (UsizeMax + 1)]
UsizeMul(a, b) == [overflow |-> a * b > UsizeMax, value |-> (a * b) % (UsizeMax + 1)]
UsizeSub(a, b) == [overflow |-> a < b, value |-> (a - b) % (UsizeMax + 1)]

\* prr.rs:59-87 at the width of usize: the budget and whether an operation
\* on the way overflowed
OnAckBudgetUsize(delivered, sent, recoverfs, bytes_in_flight, slow_start_threshold, max_datagram_size) ==
    IF bytes_in_flight > slow_start_threshold
    THEN IF recoverfs = 0
         THEN [overflow |-> FALSE, value |-> 0]
         ELSE LET product == UsizeMul(delivered, slow_start_threshold)
                  sum == UsizeAdd(product.value, recoverfs)
                  numerator == UsizeSub(sum.value, 1)
              IN  [overflow |-> product.overflow \/ sum.overflow \/ numerator.overflow,
                   value |-> SaturatingSub(numerator.value \div recoverfs, delivered)]
    ELSE LET limit == UsizeAdd(Max(SaturatingSub(delivered, sent), bytes_in_flight),
                               max_datagram_size)
         IN  [overflow |-> limit.overflow,
              value |-> Min(limit.value, SaturatingSub(slow_start_threshold, bytes_in_flight))]

\* prr.rs:35-41
on_congestion_event_usize(bytes_in_flight) ==
    /\ ~panic
    /\ call' = [op |-> "on_congestion_event", overflow |-> FALSE]
    /\ bytes_in_flight_at_recovery' = bytes_in_flight
    /\ bytes_sent_during_recovery' = 0
    /\ bytes_delivered_during_recovery' = 0
    /\ bytes_allowed_on_ack' = 0
    /\ UNCHANGED << ret, panic >>
    /\ LedgerUnchanged

\* prr.rs:43-47
on_packet_sent_usize(bytes_sent) ==
    /\ ~panic
    /\ LET sum == UsizeAdd(bytes_sent_during_recovery, bytes_sent)
       IN  /\ call' = [op |-> "on_packet_sent", overflow |-> sum.overflow]
           /\ panic' = (sum.overflow /\ overflow_checks)
           /\ IF sum.overflow /\ overflow_checks
              THEN UNCHANGED << bytes_sent_during_recovery, bytes_allowed_on_ack >>
              ELSE /\ bytes_sent_during_recovery' = sum.value
                   /\ bytes_allowed_on_ack' = SaturatingSub(bytes_allowed_on_ack, bytes_sent)
    /\ UNCHANGED << bytes_delivered_during_recovery, bytes_in_flight_at_recovery, ret >>
    /\ LedgerUnchanged

\* prr.rs:49-88
on_ack_usize(bytes_acknowledged, bytes_in_flight, slow_start_threshold, max_datagram_size) ==
    /\ ~panic
    /\ LET sum == UsizeAdd(bytes_delivered_during_recovery, bytes_acknowledged)
           budget == OnAckBudgetUsize(sum.value, bytes_sent_during_recovery,
                                      bytes_in_flight_at_recovery, bytes_in_flight,
                                      slow_start_threshold, max_datagram_size)
       IN  IF sum.overflow /\ overflow_checks
           THEN /\ call' = [op |-> "on_ack", overflow |-> TRUE]
                /\ panic' = TRUE
                /\ UNCHANGED << bytes_delivered_during_recovery, bytes_allowed_on_ack >>
           ELSE /\ call' = [op |-> "on_ack", overflow |-> sum.overflow \/ budget.overflow]
                /\ panic' = (budget.overflow /\ overflow_checks)
                /\ bytes_delivered_during_recovery' = sum.value
                /\ bytes_allowed_on_ack' =
                      IF budget.overflow /\ overflow_checks
                      THEN bytes_allowed_on_ack ELSE budget.value
    /\ UNCHANGED << bytes_sent_during_recovery, bytes_in_flight_at_recovery, ret >>
    /\ LedgerUnchanged

\* either build profile
InitUsize ==
    /\ Constructed
    /\ overflow_checks \in BOOLEAN
    /\ recovery_threshold = 0
    /\ std_feature = TRUE
    /\ environment = "absent"

NextUsize ==
    \/ \E bytes_in_flight \in Usize : on_congestion_event_usize(bytes_in_flight)
    \/ \E bytes_sent \in Usize : on_packet_sent_usize(bytes_sent)
    \/ \E bytes_acknowledged \in Usize, bytes_in_flight \in Usize,
          slow_start_threshold \in Usize, max_datagram_size \in Usize :
            on_ack_usize(bytes_acknowledged, bytes_in_flight, slow_start_threshold,
                         max_datagram_size)

SpecUsize == InitUsize /\ [][NextUsize]_vars

(***************************************************************************)
(* Prr::is_enabled.  With the std feature the answer is kept in a static   *)
(* once_cell::sync::OnceCell<bool>: get_or_init returns the stored value,  *)
(* or lets exactly one caller run the closure while the others wait, and   *)
(* stores what the closure returned.  The closure reads the environment.   *)
(* Each step of a call is one action, so calls of several threads and      *)
(* changes of the environment interleave.                                  *)
(***************************************************************************)
\* S2N_ENABLE_PRR: not set, set to a Unicode string (the empty string
\* included), set to bytes that are not valid Unicode
Environments == {"absent", "unicode", "not_unicode"}

\* std::env::var(..).is_ok(): Err(NotPresent) when the variable is not
\* set, Err(NotUnicode) when its value is not valid Unicode
EnvVarIsOk(env) == env = "unicode"

\* calls of is_enabled followed in one behaviour
MaxCalls == 3

\* thread t may start one more call
MayCall(t) ==
    /\ thread[t].pc = "idle"
    /\ Len(is_enabled_returns)
          + Cardinality({ other \in Threads : thread[other].pc # "idle" }) < MaxCalls

\* the call of thread t returns value
Return(t, value) ==
    /\ thread' = [thread EXCEPT ![t] = [pc |-> "idle", value |-> FALSE]]
    /\ is_enabled_returns' = Append(is_enabled_returns, value)
    /\ call' = [op |-> "is_enabled", thread |-> t]
    /\ ret' = value

FlagFrame ==
    /\ UNCHANGED << prr_vars, sent_packets, panic, caller_vars, setting_vars, extract_vars >>

\* prr.rs:101-104, built without std
is_enabled_no_std(t) ==
    /\ ~std_feature
    /\ MayCall(t)
    /\ Return(t, FALSE)
    /\ UNCHANGED << environment, USE_PRR, first_read >>
    /\ FlagFrame

\* prr.rs:98, get_or_init finds the cell initialized
is_enabled_get(t) ==
    /\ std_feature
    /\ MayCall(t) \/ thread[t].pc = "get_or_init"
    /\ USE_PRR # << >>
    /\ Return(t, USE_PRR[1])
    /\ UNCHANGED << environment, USE_PRR, first_read >>
    /\ FlagFrame

\* prr.rs:98, get_or_init finds the cell empty and goes to initialize it
is_enabled_enter(t) ==
    /\ std_feature
    /\ MayCall(t)
    /\ USE_PRR = << >>
    /\ thread' = [thread EXCEPT ![t] = [pc |-> "get_or_init", value |-> FALSE]]
    /\ UNCHANGED << environment, USE_PRR, first_read, is_enabled_returns, call, ret >>
    /\ FlagFrame

\* prr.rs:98, the closure: one caller at a time, and only while the cell
\* is empty
is_enabled_closure(t) ==
    /\ thread[t].pc = "get_or_init"
    /\ USE_PRR = << >>
    /\ \A other \in Threads : thread[other].pc # "closure"
    /\ thread' = [thread EXCEPT ![t] = [pc |-> "closure",
                                        value |-> EnvVarIsOk(environment)]]
    /\ first_read' = IF first_read = << >> THEN << environment >> ELSE first_read
    /\ UNCHANGED << environment, USE_PRR, is_enabled_returns, call, ret >>
    /\ FlagFrame

\* prr.rs:98, get_or_init stores what the closure returned and returns it
is_enabled_store(t) ==
    /\ thread[t].pc = "closure"
    /\ USE_PRR' = << thread[t].value >>
    /\ Return(t, thread[t].value)
    /\ UNCHANGED << environment, first_read >>
    /\ FlagFrame

\* the process environment changes (std::env::set_var / remove_var)
set_var(env) ==
    /\ std_feature
    /\ environment # env
    /\ environment' = env
    /\ UNCHANGED << USE_PRR, thread, is_enabled_returns, first_read, call, ret >>
    /\ FlagFrame

\* either feature set; without std there is no environment
InitFlag ==
    /\ Constructed
    /\ overflow_checks = FALSE
    /\ recovery_threshold = 0
    /\ std_feature \in BOOLEAN
    /\ environment \in (IF std_feature THEN Environments ELSE {"absent"})

NextFlag ==
    \/ \E t \in Threads : is_enabled_no_std(t)
    \/ \E t \in Threads : is_enabled_get(t)
    \/ \E t \in Threads : is_enabled_enter(t)
    \/ \E t \in Threads : is_enabled_closure(t)
    \/ \E t \in Threads : is_enabled_store(t)
    \/ \E env \in Environments : set_var(env)

SpecFlag == InitFlag /\ [][NextFlag]_vars

(***************************************************************************)
(* One connection in recovery: the congestion controller holds one         *)
(* slow_start_threshold, bytes in flight stay above it, so every on_ack    *)
(* takes the congestion-avoidance branch (prr.rs:59), and the sender asks  *)
(* can_transmit before it reports a packet with on_packet_sent.            *)
(***************************************************************************)
\* bytes in flight reported with an ACK; one more than the largest
\* threshold, so that every threshold can be exceeded
BytesInFlight == 0 .. MaxBytes + 1

\* prr.rs:49-88 through the branch of prr.rs:59
ack_in_congestion_avoidance(bytes_acknowledged, bytes_in_flight, max_datagram_size) ==
    /\ bytes_in_flight > recovery_threshold
    /\ on_ack(bytes_acknowledged, bytes_in_flight, recovery_threshold, max_datagram_size)

\* prr.rs:90-92 answered true, then prr.rs:43-47
send_when_allowed(datagram_size) ==
    /\ CanTransmit(bytes_allowed_on_ack, datagram_size)
    /\ on_packet_sent(datagram_size)

InitEpisode ==
    /\ Constructed
    /\ overflow_checks = FALSE
    /\ recovery_threshold \in Bytes
    /\ std_feature = TRUE
    /\ environment = "absent"

NextEpisode ==
    \/ \E bytes_in_flight \in Bytes : on_congestion_event(bytes_in_flight)
    \/ \E bytes_acknowledged \in Bytes, bytes_in_flight \in BytesInFlight,
          max_datagram_size \in Bytes :
            ack_in_congestion_avoidance(bytes_acknowledged, bytes_in_flight,
                                        max_datagram_size)
    \/ \E datagram_size \in Bytes : can_transmit(datagram_size)
    \/ \E datagram_size \in Bytes : send_when_allowed(datagram_size)

SpecEpisode == InitEpisode /\ [][NextEpisode]_vars

(***************************************************************************)
(* Pattern::extract with the default pattern (meta "//=", content "//#").  *)
(* The source is read line by line; each line is one step of the loop at   *)
(* pattern.rs:45-93, and the end of the source is the step to              *)
(* pattern.rs:95.  Lines are told apart by what the parser does with them: *)
(*   "target"       //= <text without '='>                                 *)
(*   "source"       //= source=<text>                                      *)
(*   "field"        //= level=.. | format=.. | type=.. with a valid value  *)
(*   "unknown"      //= <other key>=..                                     *)
(*   "blank_meta"   //=   and nothing after the prefix                     *)
(*   "content"      //# <text>                                             *)
(*   "other"        a line with neither prefix                             *)
(***************************************************************************)
MaxLines == 4

MetaLines == {"target", "source", "field", "unknown", "blank_meta"}
Lines == MetaLines \cup {"content", "other"}

Ok == << "Ok" >>
Err(message) == << "Err", message >>

Search == [name |-> "Search", capture |-> << >>]
CapturingMeta(capture) == [name |-> "CapturingMeta", capture |-> << capture >>]
CapturingContent(capture) == [name |-> "CapturingContent", capture |-> << capture >>]

\* pattern.rs:112-123; target "" is the empty string, contents counts the
\* content lines pushed
CaptureNew(line) == [anno_line |-> line, target |-> "", contents |-> 0]

\* pattern.rs:125-142
push_meta(capture, line) ==
    CASE line = "source" -> [result |-> Ok, capture |-> [capture EXCEPT !.target = "source"]]
      [] line = "field" -> [result |-> Ok, capture |-> capture]
      [] line = "unknown" -> [result |-> Err("invalid metadata field"), capture |-> capture]
      [] line = "target" ->
            IF capture.target = ""
            THEN [result |-> Ok, capture |-> [capture EXCEPT !.target = "target"]]
            ELSE [result |-> Err("annotation source already specified"),
                  capture |-> capture]
      [] line = "blank_meta" ->
            IF capture.target = ""
            THEN [result |-> Ok, capture |-> capture]
            ELSE [result |-> Err("annotation source already specified"),
                  capture |-> capture]

\* pattern.rs:144-150
push_content(capture) == [capture EXCEPT !.contents = @ + 1]

\* mutant: a capture without a target is accepted
done_without_target_check(capture, item_line, current_dir) ==
    IF ~current_dir
    THEN [result |-> Err("io"), annotation |-> << >>]
    ELSE [result |-> Ok,
          annotation |-> << [anno_line |-> capture.anno_line, item_line |-> item_line,
                             target |-> capture.target, quote |-> capture.contents] >>]

\* pattern.rs:152-171; current_dir is whether std::env::current_dir()
\* succeeds
done(capture, item_line, current_dir) ==
    IF ~current_dir
    THEN [result |-> Err("io"), annotation |-> << >>]
    ELSE IF capture.target = ""
    THEN [result |-> Err("missing source information"), annotation |-> << >>]
    ELSE [result |-> Ok,
          annotation |-> << [anno_line |-> capture.anno_line, item_line |-> item_line,
                             target |-> capture.target, quote |-> capture.contents] >>]

\* what one pass of the loop body leaves: the parser state, the set, the
\* result when the pass returns, the line of a capture it opened
\* pattern.rs:54-70
SearchStep(line, number) ==
    IF line \notin MetaLines \/ line = "blank_meta"
    THEN [state |-> Search, insert |-> << >>, result |-> << >>, started |-> {}]
    ELSE LET pushed == push_meta(CaptureNew(number), line)
         IN  IF pushed.result # Ok
             THEN [state |-> Search, insert |-> << >>, result |-> pushed.result,
                   started |-> {number}]
             ELSE [state |-> CapturingMeta(pushed.capture), insert |-> << >>,
                   result |-> << >>, started |-> {number}]

\* pattern.rs:79 and 89: the capture ends
EndCapture(capture, number, current_dir) ==
    LET finished == done(capture, number, current_dir)
    IN  IF finished.result # Ok
        THEN [state |-> Search, insert |-> << >>, result |-> finished.result,
              started |-> {}]
        ELSE [state |-> Search, insert |-> finished.annotation, result |-> << >>,
              started |-> {}]

\* pattern.rs:71-81
CapturingMetaStep(capture, line, number, current_dir) ==
    IF line \in MetaLines
    THEN LET pushed == push_meta(capture, line)
         IN  IF pushed.result # Ok
             THEN [state |-> Search, insert |-> << >>, result |-> pushed.result,
                   started |-> {}]
             ELSE [state |-> CapturingMeta(pushed.capture), insert |-> << >>,
                   result |-> << >>, started |-> {}]
    ELSE IF line = "content"
    THEN [state |-> CapturingContent(push_content(capture)), insert |-> << >>,
          result |-> << >>, started |-> {}]
    ELSE EndCapture(capture, number, current_dir)

\* pattern.rs:82-91
CapturingContentStep(capture, line, number, current_dir) ==
    IF line \in MetaLines
    THEN [state |-> Search, insert |-> << >>,
          result |-> Err("cannot set metadata while parsing content"), started |-> {}]
    ELSE IF line = "content"
    THEN [state |-> CapturingContent(push_content(capture)), insert |-> << >>,
          result |-> << >>, started |-> {}]
    ELSE EndCapture(capture, number, current_dir)

\* pattern.rs:53-92, the match on the parser state
Step(parser, line, number, current_dir) ==
    CASE parser.name = "Search" -> SearchStep(line, number)
      [] parser.name = "CapturingMeta" ->
            CapturingMetaStep(parser.capture[1], line, number, current_dir)
      [] parser.name = "CapturingContent" ->
            CapturingContentStep(parser.capture[1], line, number, current_dir)

ExtractFrame ==
    UNCHANGED << prr_vars, sent_packets, panic, caller_vars, setting_vars, flag_vars >>

\* pattern.rs:45-93, one line of the source
extract_line(line, current_dir) ==
    /\ extract_result = << >>
    /\ line_no < MaxLines
    /\ LET step == Step(state, line, line_no + 1, current_dir)
       IN  /\ state' = step.state
           /\ annotations' = annotations \cup { step.insert[i] : i \in 1 .. Len(step.insert) }
           /\ extract_result' = step.result
           /\ captures_started' = captures_started \cup step.started
    /\ line_no' = line_no + 1
    /\ call' = [op |-> "extract_line", line |-> line, current_dir |-> current_dir,
                pre |-> [state |-> state, annotations |-> annotations]]
    /\ ret' = << >>
    /\ ExtractFrame

\* pattern.rs:93-95, the source has no more lines
extract_end ==
    /\ extract_result = << >>
    /\ extract_result' = Ok
    /\ call' = [op |-> "extract_end"]
    /\ ret' = Ok
    /\ UNCHANGED << state, annotations, line_no, captures_started >>
    /\ ExtractFrame

NextExtract ==
    \/ \E line \in Lines, current_dir \in BOOLEAN : extract_line(line, current_dir)
    \/ extract_end

SpecExtract == Init /\ [][NextExtract]_vars

(***************************************************************************)
(* Properties of Prr                                                       *)
(***************************************************************************)

\* ceil(a / b) for b > 0, by case analysis on the remainder
Ceil(a, b) == IF a % b = 0 THEN a \div b ELSE (a \div b) + 1

\* x floored at zero
FlooredAtZero(x) == IF x < 0 THEN 0 ELSE x

LastOp(name) == call.op = name

\* the last call was on_ack in the congestion-avoidance regime
AckInCongestionAvoidance ==
    /\ LastOp("on_ack")
    /\ call.bytes_in_flight > call.slow_start_threshold

\* the last call was on_ack in the slow-start reduction bound regime
AckInSlowStartReductionBound ==
    /\ LastOp("on_ack")
    /\ call.bytes_in_flight <= call.slow_start_threshold

\* C1: in the congestion-avoidance regime with a non-zero
\* bytes_in_flight_at_recovery, on_ack adds bytes_acknowledged to
\* bytes_delivered_during_recovery and sets bytes_allowed_on_ack to
\* ceil(delivered * slow_start_threshold / bytes_in_flight_at_recovery)
\* - bytes_sent_during_recovery floored at zero; on_congestion_event(1000)
\* then on_ack(500, 1200, 800, 1200) leaves bytes_allowed_on_ack = 400.
C1_BudgetSubtractsBytesSent ==
    (AckInCongestionAvoidance /\ bytes_in_flight_at_recovery # 0) =>
        /\ ~panic
        /\ bytes_delivered_during_recovery =
              call.pre.bytes_delivered_during_recovery + call.bytes_acknowledged
        /\ bytes_allowed_on_ack =
              FlooredAtZero(Ceil(bytes_delivered_during_recovery
                                    * call.slow_start_threshold,
                                 bytes_in_flight_at_recovery)
                            - bytes_sent_during_recovery)

C3_CongestionEventResets ==
    LastOp("on_congestion_event") =>
        /\ bytes_in_flight_at_recovery = call.bytes_in_flight
        /\ bytes_sent_during_recovery = 0
        /\ bytes_delivered_during_recovery = 0
        /\ bytes_allowed_on_ack = 0
        /\ CanTransmit(bytes_allowed_on_ack, 1) = FALSE

\* a re-entry: on_congestion_event called with all four counters non-zero
C3_Witness ==
    /\ LastOp("on_congestion_event")
    /\ call.bytes_in_flight > 0
    /\ call.bytes_in_flight # call.pre.bytes_in_flight_at_recovery
    /\ call.pre.bytes_in_flight_at_recovery > 0
    /\ call.pre.bytes_sent_during_recovery > 0
    /\ call.pre.bytes_delivered_during_recovery > 0
    /\ call.pre.bytes_allowed_on_ack > 0

\* C4: on_packet_sent(n) increases bytes_sent_during_recovery by exactly n,
\* sets bytes_allowed_on_ack to max(0, previous budget - n) and leaves
\* bytes_delivered_during_recovery and bytes_in_flight_at_recovery unchanged.
C4_PacketSentFrame ==
    LastOp("on_packet_sent") =>
        /\ bytes_sent_during_recovery =
              call.pre.bytes_sent_during_recovery + call.bytes_sent
        /\ bytes_allowed_on_ack =
              FlooredAtZero(call.pre.bytes_allowed_on_ack - call.bytes_sent)
        /\ bytes_delivered_during_recovery = call.pre.bytes_delivered_during_recovery
        /\ bytes_in_flight_at_recovery = call.pre.bytes_in_flight_at_recovery

\* on_packet_sent of more bytes than the budget held, and of fewer
C4_WitnessSaturated ==
    /\ LastOp("on_packet_sent")
    /\ call.pre.bytes_allowed_on_ack > 0
    /\ call.bytes_sent > call.pre.bytes_allowed_on_ack
    /\ call.pre.bytes_delivered_during_recovery > 0

\* C5: bytes_allowed_on_ack is never negative; can_transmit(d) returns true
\* iff bytes_allowed_on_ack >= d and changes none of the four counters.
C5_CanTransmitPureQuery ==
    /\ bytes_allowed_on_ack >= 0
    /\ LastOp("can_transmit") =>
          /\ ret \in BOOLEAN
          /\ ret <=> (bytes_allowed_on_ack >= call.datagram_size)
          /\ PrrState = call.pre

\* can_transmit(d) answered with a budget of exactly d > 0
C5_Witness ==
    /\ LastOp("can_transmit")
    /\ call.datagram_size > 0
    /\ bytes_allowed_on_ack = call.datagram_size
    /\ ret = TRUE

\* C6: with bytes_in_flight_at_recovery = 0, on_ack with
\* bytes_in_flight > slow_start_threshold sets the budget to zero and
\* performs no division (no division by zero panics).
C6_ZeroSnapshotBudgetZero ==
    (AckInCongestionAvoidance /\ call.pre.bytes_in_flight_at_recovery = 0) =>
        /\ ~panic
        /\ bytes_allowed_on_ack = 0

\* on_ack of a positive byte count in that regime, with a zero snapshot
C6_Witness ==
    /\ AckInCongestionAvoidance
    /\ call.pre.bytes_in_flight_at_recovery = 0
    /\ call.bytes_acknowledged > 0
    /\ call.slow_start_threshold > 0
    /\ ~panic

(***************************************************************************)
(* Properties of SentPackets                                               *)
(***************************************************************************)

\* the packet-number space of the argument of the last call
ArgumentSpace ==
    IF LastOp("range") THEN call.range.start.space ELSE call.packet_number.space

\* the entry stored under packet_number in map, as a set (empty if none)
StoredUnder(map, packet_number) ==
    { map[i].value : i \in { j \in 1 .. Len(map) : map[j].key = packet_number } }

\* the (key, value) pairs of map
StoredPairs(map) == { << map[i].key, map[i].value >> : i \in 1 .. Len(map) }

\* the elements of a sequence
Elements(seq) == { seq[i] : i \in 1 .. Len(seq) }

\* a sequence of (key, value) pairs of one space, strictly ascending by key
StrictlyAscending(seq) ==
    \A i \in 1 .. Len(seq) - 1 :
        /\ seq[i][1].space = seq[i + 1][1].space
        /\ seq[i][1].value < seq[i + 1][1].value

\* C7: on a ledger holding entries of space S, an insert, get, remove or
\* range whose packet number (or range) is of another space panics: it
\* returns no result and leaves the ledger as it was.
C7_CrossSpacePanics ==
    ( /\ call.op \in {"insert", "get", "remove", "range"}
      /\ \E i \in 1 .. Len(call.pre) : call.pre[i].key.space # ArgumentSpace ) =>
        /\ panic
        /\ ret = << >>
        /\ sent_packets = call.pre

\* a range over one space asked of a ledger holding two entries of another
C7_Witness ==
    /\ LastOp("range")
    /\ Len(call.pre) = 2
    /\ call.pre[1].key.space # call.range.start.space
    /\ panic

\* C8: iter() yields every stored entry in strictly ascending packet-number
\* order; range(start, end) yields, strictly ascending, exactly the stored
\* entries with start <= key <= end, each with its stored value.
C8_IterAndRangeOrdered ==
    /\ LastOp("iter") =>
          /\ StrictlyAscending(ret)
          /\ Elements(ret) = StoredPairs(sent_packets)
          /\ Len(ret) = Cardinality(StoredPairs(sent_packets))
    /\ (LastOp("range") /\ ~panic) =>
          /\ StrictlyAscending(ret)
          /\ Elements(ret) =
                { p \in StoredPairs(sent_packets) :
                    /\ call.range.start.value <= p[1].value
                    /\ p[1].value <= call.range.end.value }
          /\ Len(ret) = Cardinality(Elements(ret))

\* a range that leaves out stored entries below its start and above its end
C8_Witness ==
    /\ LastOp("range")
    /\ ~panic
    /\ Len(sent_packets) = 3
    /\ Len(ret) = 1
    /\ ret[1][1].value = 2

\* remove of a key not stored returns empty and leaves the ledger
\* unchanged; remove of a stored key returns its value, after which get
\* returns absent and a second remove of the key returns empty
C9_RemoveIdempotent ==
    (LastOp("remove") /\ ~panic) =>
        LET was == StoredUnder(call.pre, call.packet_number)
        IN  /\ was = {} => (ret = << >> /\ sent_packets = call.pre)
            /\ was # {} =>
                  /\ Len(ret) = 1
                  /\ was = {ret[1]}
                  /\ Get(sent_packets, call.packet_number) =
                        [panic |-> FALSE, ret |-> << >>]
                  /\ Remove(sent_packets, call.packet_number) =
                        [panic |-> FALSE, ret |-> << >>, map |-> sent_packets]

\* on consecutive calls: a remove that directly follows a remove of the
\* same key returns empty and changes nothing
C9_RemoveTwiceInARow ==
    [][ ( /\ LastOp("remove") /\ ~panic
          /\ call'.op = "remove"
          /\ call'.packet_number = call.packet_number ) =>
            (ret' = << >> /\ sent_packets' = sent_packets /\ ~panic') ]_vars

\* C9: remove on a key that is not stored returns an empty result and
\* leaves the ledger unchanged; remove called twice in a row on a stored
\* key returns the stored value the first time and an empty result the
\* second time, and after the first call get on that key returns absent.
C9_Remove == []C9_RemoveIdempotent /\ C9_RemoveTwiceInARow

\* a stored entry removed from between two others
C9_Witness ==
    /\ LastOp("remove")
    /\ ~panic
    /\ Len(call.pre) = 3
    /\ call.packet_number.value = 2
    /\ Len(ret) = 1

(***************************************************************************)
(* Properties of the two resolvers                                         *)
(***************************************************************************)

\* the remove calls that returned an entry, as (resolver, call) pairs
NonEmptyReturns ==
    UNION { { << resolver, r >> : r \in { x \in returned[resolver] : x.ret # << >> } } :
            resolver \in Resolvers }

\* the entries that were inserted and are no longer stored
InsertedAndRemoved ==
    { entry \in inserted : << entry.key, entry.value >> \notin StoredPairs(sent_packets) }

\* the sum of the first components of a set of tuples
RECURSIVE SumFirst(_)
SumFirst(tuples) ==
    IF tuples = {} THEN 0
    ELSE LET t == CHOOSE t \in tuples : TRUE
         IN  t[1] + SumFirst(tuples \ {t})

\* sent_bytes summed over the entries the remove calls returned
ReturnedSentBytes ==
    SumFirst({ << c[2].ret[1].sent_bytes, c[1], c[2].packet_number >> : c \in NonEmptyReturns })

\* sent_bytes summed over the entries inserted and removed
RemovedSentBytes ==
    SumFirst({ << entry.value.sent_bytes, entry.key >> : entry \in InsertedAndRemoved })

\* C10: no packet is resolved twice: in any interleaving of the two
\* resolvers' remove calls, every entry inserted and removed was returned
\* by exactly one remove call (any other call on its packet number got an
\* empty result), nothing else was returned, and the sent_bytes of the
\* returned entries sum to the sent_bytes of the entries inserted and
\* removed.
C10_NoDoubleResolution ==
    /\ ~panic
    /\ \A entry \in InsertedAndRemoved :
          LET got == { c \in NonEmptyReturns : c[2].packet_number = entry.key }
          IN  /\ Cardinality(got) = 1
              /\ \A c \in got : c[2].ret = << entry.value >>
    /\ \A c \in NonEmptyReturns :
          [key |-> c[2].packet_number, value |-> c[2].ret[1]] \in InsertedAndRemoved
    /\ \A entry \in inserted :
          (\E resolver \in Resolvers : \E r \in returned[resolver] :
              r.packet_number = entry.key) => entry \in InsertedAndRemoved
    /\ ReturnedSentBytes = RemovedSentBytes

\* both resolvers have called remove on the same two packets; each got
\* one of them and an empty result for the other
C10_Witness ==
    \E first, second \in { entry \in inserted : entry.value.sent_bytes > 0 } :
        /\ first.key # second.key
        /\ [packet_number |-> first.key, ret |-> << first.value >>]
              \in returned["ack_processing"]
        /\ [packet_number |-> first.key, ret |-> << >>] \in returned["loss_detection"]
        /\ [packet_number |-> second.key, ret |-> << second.value >>]
              \in returned["loss_detection"]
        /\ [packet_number |-> second.key, ret |-> << >>] \in returned["ack_processing"]

(***************************************************************************)
(* Properties of the round trip                                            *)
(***************************************************************************)

\* some remove call was made on packet_number
RemoveCalled(packet_number) ==
    \E resolver \in Resolvers : \E r \in returned[resolver] :
        r.packet_number = packet_number

\* C11: after inserting N distinct packet numbers of one space, get on
\* each returns exactly the info inserted for it and get on a packet number
\* never inserted returns absent; after removing all N, iter() yields an
\* empty sequence.
C11_RoundTrip ==
    /\ ~panic
    /\ LastOp("get") =>
          LET was == { entry \in inserted : entry.key = call.packet_number }
          IN  /\ was = {} => ret = << >>
              /\ \A entry \in was :
                    ~RemoveCalled(entry.key) => ret = << entry.value >>
    /\ (LastOp("iter") /\ \A entry \in inserted : RemoveCalled(entry.key)) =>
          ret = << >>

\* iter() after three packets were inserted and all three removed
C11_Witness ==
    /\ LastOp("iter")
    /\ Cardinality(inserted) >= 3
    /\ \A entry \in inserted : RemoveCalled(entry.key)
    /\ ret = << >>

\* the keys of map, in order
Keys(map) == [i \in 1 .. Len(map) |-> map[i].key]

\* C12: the ledger holds at most one entry per packet number; insert on a
\* stored key replaces its value and leaves the number of entries
\* unchanged, insert on a key not stored adds exactly one entry, and no
\* other entry changes.
C12_OneEntryPerPacketNumber ==
    /\ \A i, j \in 1 .. Len(sent_packets) :
          sent_packets[i].key = sent_packets[j].key => i = j
    /\ (LastOp("insert") /\ ~panic) =>
          LET was == StoredUnder(call.pre, call.packet_number)
              others(map) == { p \in StoredPairs(map) : p[1] # call.packet_number }
          IN  /\ Len(sent_packets) = Len(call.pre) + (IF was = {} THEN 1 ELSE 0)
              /\ StoredUnder(sent_packets, call.packet_number) = {call.sent_packet_info}
              /\ others(sent_packets) = others(call.pre)

\* an insert that replaced the value stored under a key between two others
C12_Witness ==
    /\ LastOp("insert")
    /\ ~panic
    /\ Len(call.pre) = 3
    /\ call.packet_number = call.pre[2].key
    /\ call.sent_packet_info # call.pre[2].value
    /\ Len(sent_packets) = 3

\* C16: in every reachable state all stored keys belong to one
\* packet-number space.
C16_OneSpacePerLedger ==
    \A i, j \in 1 .. Len(sent_packets) :
        sent_packets[i].key.space = sent_packets[j].key.space

\* an insert of a packet number of another space into a ledger of two
\* entries was refused
C16_Witness ==
    /\ LastOp("insert")
    /\ panic
    /\ Len(sent_packets) = 2
    /\ call.packet_number.space # sent_packets[1].key.space

(***************************************************************************)
(* Properties of Prr between congestion events                             *)
(***************************************************************************)

\* C13: between two consecutive on_congestion_event calls,
\* bytes_sent_during_recovery and bytes_delivered_during_recovery never
\* decrease under on_packet_sent, on_ack and can_transmit, and
\* bytes_in_flight_at_recovery keeps the snapshotted value.
C13_MonotoneBetweenCongestionEvents ==
    (LastOp("on_packet_sent") \/ LastOp("on_ack") \/ LastOp("can_transmit")) =>
        /\ bytes_sent_during_recovery >= call.pre.bytes_sent_during_recovery
        /\ bytes_delivered_during_recovery >= call.pre.bytes_delivered_during_recovery
        /\ bytes_in_flight_at_recovery = call.pre.bytes_in_flight_at_recovery

\* an on_ack of a positive byte count in an episode that has sent and
\* delivered bytes already
C13_Witness ==
    /\ LastOp("on_ack")
    /\ call.bytes_acknowledged > 0
    /\ call.pre.bytes_in_flight_at_recovery > 0
    /\ call.pre.bytes_sent_during_recovery > 0
    /\ call.pre.bytes_delivered_during_recovery > call.bytes_acknowledged
    /\ ~panic

\* C18: on_ack in the slow-start reduction bound regime leaves
\* bytes_in_flight + bytes_allowed_on_ack <= slow_start_threshold, and a
\* budget of zero when bytes_in_flight equals slow_start_threshold.
C18_BudgetBelowThreshold ==
    AckInSlowStartReductionBound =>
        /\ call.bytes_in_flight + bytes_allowed_on_ack <= call.slow_start_threshold
        /\ call.bytes_in_flight = call.slow_start_threshold => bytes_allowed_on_ack = 0

\* an on_ack with bytes_in_flight at the threshold, a datagram size and a
\* delivered surplus that would otherwise allow bytes
C18_Witness ==
    /\ AckInSlowStartReductionBound
    /\ call.bytes_in_flight = call.slow_start_threshold
    /\ call.slow_start_threshold > 0
    /\ call.max_datagram_size > 0
    /\ bytes_delivered_during_recovery > bytes_sent_during_recovery
    /\ bytes_allowed_on_ack = 0


(***************************************************************************)
(* Properties of Prr at the width of its counters                          *)
(***************************************************************************)

\* C14: on_packet_sent and on_ack have no failure condition: for all
\* argument values they complete, with no division by zero, no subtraction
\* that underflows and no addition or multiplication that overflows the
\* counter width.
C14_NoFailureCondition ==
    (LastOp("on_packet_sent") \/ LastOp("on_ack")) =>
        /\ ~panic
        /\ ~call.overflow


(***************************************************************************)
(* Properties of Prr::is_enabled                                           *)
(***************************************************************************)

\* all calls so far returned one value
OneAnswer ==
    \A i, j \in 1 .. Len(is_enabled_returns) :
        is_enabled_returns[i] = is_enabled_returns[j]

\* C15: is_enabled returns the same value on every call; the value is
\* fixed at the first read: true iff the variable was present at that
\* moment, whatever its value, and always false without a hosted
\* environment; later changes of the environment and concurrent first
\* reads cannot make two calls differ.
C15_FixedAtFirstRead ==
    /\ OneAnswer
    /\ \A i \in 1 .. Len(is_enabled_returns) :
          is_enabled_returns[i] =
             (std_feature /\ first_read # << >> /\ first_read[1] # "absent")


(***************************************************************************)
(* Properties of one recovery episode                                      *)
(***************************************************************************)

\* C17: within a recovery episode with a constant slow_start_threshold and
\* a non-zero bytes_in_flight_at_recovery, where every on_ack is in the
\* congestion-avoidance regime and on_packet_sent(d) is called only when
\* can_transmit(d) is true, bytes_sent_during_recovery never exceeds
\* ceil(bytes_delivered_during_recovery * slow_start_threshold
\*      / bytes_in_flight_at_recovery).
C17_SentWithinProportionalShare ==
    bytes_in_flight_at_recovery # 0 =>
        bytes_sent_during_recovery <=
            Ceil(bytes_delivered_during_recovery * recovery_threshold,
                 bytes_in_flight_at_recovery)


(***************************************************************************)
(* Properties of Pattern::extract                                          *)
(***************************************************************************)

\* C19: whenever extract returns Ok, every capture started at a
\* meta-prefixed line with non-empty text has been finished and inserted
\* into the annotation set, a block that ends with the source included.
C19_EveryCaptureInserted ==
    extract_result = Ok =>
        \A line \in captures_started :
            \E annotation \in annotations : annotation.anno_line = line

\* the move the parser made on the last line, while extract goes on
Moved(from, to) ==
    /\ LastOp("extract_line")
    /\ extract_result = << >>
    /\ call.pre.state.name = from
    /\ state.name = to

\* the last line was met with a capture open
LineWhileCapturing(lines) ==
    /\ LastOp("extract_line")
    /\ call.pre.state.name \in {"CapturingMeta", "CapturingContent"}
    /\ call.line \in lines

\* the last line was a meta-prefixed line met while capturing content:
\* extract returned the error and the set is as it was
MetaWhileCapturingContentIsAnError ==
    (LastOp("extract_line") /\ call.pre.state.name = "CapturingContent"
                            /\ call.line \in MetaLines) =>
        /\ extract_result = Err("cannot set metadata while parsing content")
        /\ annotations = call.pre.annotations

\* the annotation made of the capture that was open before the last line
OpenCaptureAsAnnotation ==
    LET capture == call.pre.state.capture[1]
    IN  [anno_line |-> capture.anno_line, item_line |-> line_no,
         target |-> capture.target, quote |-> capture.contents]

\* C20 as stated: the parser moves only Search -> CapturingMeta ->
\* CapturingContent -> Search; a meta-prefixed line met while capturing
\* content returns the error "cannot set metadata while parsing content"
\* without inserting the open capture and keeps the earlier annotations; a
\* line with neither prefix ends the capture, inserts it and returns the
\* parser to Search.
C20_Original ==
    /\ \A from, to \in {"Search", "CapturingMeta", "CapturingContent"} :
          (Moved(from, to) /\ from # to) =>
              << from, to >> \in {<< "Search", "CapturingMeta" >>,
                                   << "CapturingMeta", "CapturingContent" >>,
                                   << "CapturingContent", "Search" >>}
    /\ MetaWhileCapturingContentIsAnError
    /\ LineWhileCapturing({"other"}) =>
          /\ extract_result = << >>
          /\ state = Search
          /\ annotations = call.pre.annotations \cup {OpenCaptureAsAnnotation}

\* C20 amended: the parser moves only Search -> CapturingMeta,
\* CapturingMeta -> CapturingContent, CapturingMeta -> Search and
\* CapturingContent -> Search; a meta-prefixed line met while capturing
\* content returns the error "cannot set metadata while parsing content"
\* without inserting the open capture and keeps the earlier annotations; a
\* line with neither prefix ends the capture: when the capture has a
\* target and the current directory can be read it is inserted and the
\* parser returns to Search, otherwise extract returns an error ("missing
\* source information" for a capture without target) and inserts nothing.
C20_Amended ==
    /\ \A from, to \in {"Search", "CapturingMeta", "CapturingContent"} :
          (Moved(from, to) /\ from # to) =>
              << from, to >> \in {<< "Search", "CapturingMeta" >>,
                                   << "CapturingMeta", "CapturingContent" >>,
                                   << "CapturingMeta", "Search" >>,
                                   << "CapturingContent", "Search" >>}
    /\ MetaWhileCapturingContentIsAnError
    /\ LineWhileCapturing({"other"}) =>
          IF call.current_dir /\ call.pre.state.capture[1].target # ""
          THEN /\ extract_result = << >>
               /\ state = Search
               /\ annotations = call.pre.annotations \cup {OpenCaptureAsAnnotation}
          ELSE /\ extract_result # << >>
               /\ extract_result # Ok
               /\ call.current_dir => extract_result = Err("missing source information")
               /\ annotations = call.pre.annotations

\* a block of meta lines only, without target, ended by a line with
\* neither prefix after an earlier block was inserted
C20_Witness ==
    /\ LineWhileCapturing({"other"})
    /\ call.pre.state.name = "CapturingMeta"
    /\ call.pre.state.capture[1].target = ""
    /\ call.current_dir
    /\ call.pre.annotations # {}
    /\ extract_result = Err("missing source information")

====
